---- MODULE Spec2Model ----
(***************************************************************************)
(* Capability state machines of the mundane crate and their composition.   *)
(*                                                                         *)
(*   - OpenableState            src/utils/openable.rs                      *)
(*   - OccupiableState, Chair   src/utils/occupiable.rs, house/chairs.rs   *)
(*   - fused LockableState      src/utils/lockable.rs                      *)
(*   - fused Door               src/house.rs (mod doors)                   *)
(*   - composite Door           src/house/doors.rs                         *)
(*   - binary lock machine      used by the composite Door through         *)
(*                              is_unlocked/can_lock/can_unlock/unlock;    *)
(*                              its implementation is not in the source    *)
(*                              tree and is taken from the specification   *)
(*                              (section 4.2).                             *)
(*                                                                         *)
(* Every operation is a pure function from the receiver's value to the     *)
(* pair (new value, result); an action applies one operation to one        *)
(* fixture and records the call (operation, receiver before, result).      *)
(***************************************************************************)
EXTENDS Naturals, FiniteSets, Sequences, TLC

VARIABLES
    open_state,     \* composite Door.open_state   (house/doors.rs:8)
    lock_state,     \* composite Door.lock_state   (house/doors.rs:9)
    door_call,      \* last call made on the composite Door
    lockable,       \* a utils::lockable::LockableState value
    call,           \* last call made on `lockable`
    prev_call,      \* the call made on `lockable` before `call`
    state,          \* house.rs doors::Door.state
    state_call,     \* last call made on the house.rs Door
    openable,           \* a utils::openable::OpenableState value
    openable_call,      \* last call made on `openable`
    openable_prev,      \* the call made on `openable` before that
    occupation_state,   \* Chair.occupation_state (house/chairs.rs:5)
    occupation_call,    \* last call made on `occupation_state`
    occupation_prev,    \* the call made on `occupation_state` before that
    binary_lock,        \* a binary lock machine on its own
    binary_lock_call,   \* last call made on `binary_lock`
    binary_lock_prev    \* the call made on `binary_lock` before that

doorVars == <<open_state, lock_state, door_call>>

lockableVars == <<lockable, call, prev_call>>

stateVars == <<state, state_call>>

openableVars == <<openable, openable_call, openable_prev>>

occupiableVars == <<occupation_state, occupation_call, occupation_prev>>

binaryLockVars == <<binary_lock, binary_lock_call, binary_lock_prev>>

vars == <<doorVars, lockableVars, stateVars, openableVars, occupiableVars,
          binaryLockVars>>

Ok == "Ok"

----------------------------------------------------------------------------
(* utils/openable.rs *)

OpenableStates == {"Closed", "Open"}

OpenableError == {"AlreadyClosed", "AlreadyOpen", "CannotOpen"}

OpenableState_default == "Closed"

OpenableState_is_open(self) == self = "Open"

OpenableState_is_closed(self) == self = "Closed"

OpenableState_can_open(self) == OpenableState_is_closed(self)

OpenableState_can_close(self) == ~OpenableState_can_open(self)

\* close() that reports success without replacing the value
OpenableState_close_noop(self) ==
    IF self = "Open"
    THEN [self |-> self, res |-> Ok]
    ELSE [self |-> self, res |-> "AlreadyClosed"]

OpenableState_close(self) ==
    IF self = "Open"
    THEN [self |-> "Closed", res |-> Ok]
    ELSE [self |-> self, res |-> "AlreadyClosed"]

\* open() that reports CannotOpen on an open machine
OpenableState_open_cannot(self) ==
    IF self = "Open"
    THEN [self |-> self, res |-> "CannotOpen"]
    ELSE [self |-> "Open", res |-> Ok]

OpenableState_open(self) ==
    IF self = "Open"
    THEN [self |-> self, res |-> "AlreadyOpen"]
    ELSE [self |-> "Open", res |-> Ok]

----------------------------------------------------------------------------
(* utils/occupiable.rs, house/chairs.rs *)

OccupiableStates == {"Vacant", "Occupied"}

OccupiableError == {"AlreadyOccupied", "AlreadyVacant"}

OccupiableState_default_occupied == "Occupied"

OccupiableState_default == "Vacant"

OccupiableState_can_occupy(self) == self = "Vacant"

\* can_vacate() with the negation left out
OccupiableState_can_vacate_same(self) == OccupiableState_can_occupy(self)

OccupiableState_can_vacate(self) == ~OccupiableState_can_occupy(self)

OccupiableState_is_occupied(self) == self = "Occupied"

OccupiableState_is_vacant(self) == ~OccupiableState_is_occupied(self)

OccupiableState_occupy(self) ==
    IF self = "Occupied"
    THEN [self |-> self, res |-> "AlreadyOccupied"]
    ELSE [self |-> "Occupied", res |-> Ok]

\* vacate() with the error kinds mixed up
OccupiableState_vacate_swapped(self) ==
    IF self = "Vacant"
    THEN [self |-> self, res |-> "AlreadyOccupied"]
    ELSE [self |-> "Vacant", res |-> Ok]

OccupiableState_vacate(self) ==
    IF self = "Vacant"
    THEN [self |-> self, res |-> "AlreadyVacant"]
    ELSE [self |-> "Vacant", res |-> Ok]

\* #[derive(Default)] struct Chair { occupation_state }
Chair_default == OccupiableState_default

\* Chair { ..Default::default() }
Chair_new == Chair_default

----------------------------------------------------------------------------
(* The binary lock machine owned by the composite Door (spec 4.2). *)

BinaryLockStates == {"Unlocked", "Locked"}

BinaryLock_default == "Unlocked"

BinaryLock_can_lock(self) == self = "Unlocked"

BinaryLock_can_unlock(self) == ~BinaryLock_can_lock(self)

BinaryLock_is_locked(self) == self = "Locked"

BinaryLock_is_unlocked(self) == self = "Unlocked"

BinaryLock_lock(self) ==
    IF self = "Unlocked"
    THEN [self |-> "Locked", res |-> Ok]
    ELSE [self |-> self, res |-> "AlreadyLocked"]

BinaryLock_unlock(self) ==
    IF self = "Locked"
    THEN [self |-> "Unlocked", res |-> Ok]
    ELSE [self |-> self, res |-> "AlreadyUnlocked"]

----------------------------------------------------------------------------
(* utils/lockable.rs: the fused tri-state machine *)

LockableStates == {"ClosedAndUnlocked", "Open", "Locked"}

LockableError ==
    {"Locked", "Open", "AlreadyClosed", "AlreadyLocked", "AlreadyOpen"}

LockableState_default == "ClosedAndUnlocked"

LockableState_is_open(self) == self = "Open"

\* is_closed() that does not count Locked as closed
LockableState_is_closed_unlocked(self) == self = "ClosedAndUnlocked"

LockableState_is_closed(self) == ~LockableState_is_open(self)

LockableState_can_open(self) == self = "ClosedAndUnlocked"

LockableState_can_close(self) == LockableState_is_open(self)

LockableState_is_locked(self) == self = "Locked"

\* close() that also releases a locked fixture
LockableState_close_unlocks(self) ==
    IF self \in {"Open", "Locked"}
    THEN [self |-> "ClosedAndUnlocked", res |-> Ok]
    ELSE [self |-> self, res |-> "AlreadyClosed"]

LockableState_close(self) ==
    IF self = "Open"
    THEN [self |-> "ClosedAndUnlocked", res |-> Ok]
    ELSE [self |-> self, res |-> "AlreadyClosed"]

LockableState_lock_swapped(self) ==
    CASE self = "Open" -> [self |-> self, res |-> "Open"]
      [] self = "Locked" -> [self |-> self, res |-> "Locked"]
      [] self = "ClosedAndUnlocked" -> [self |-> "Locked", res |-> Ok]

\* lock() that closes an open fixture implicitly
LockableState_lock_implicit_close(self) ==
    CASE self = "Open" -> [self |-> "Locked", res |-> Ok]
      [] self = "Locked" -> [self |-> self, res |-> "AlreadyLocked"]
      [] self = "ClosedAndUnlocked" -> [self |-> "Locked", res |-> Ok]

LockableState_lock(self) ==
    CASE self = "Open" -> [self |-> self, res |-> "Open"]
      [] self = "Locked" -> [self |-> self, res |-> "AlreadyLocked"]
      [] self = "ClosedAndUnlocked" -> [self |-> "Locked", res |-> Ok]

LockableState_open_forced(self) ==
    CASE self = "Open" -> [self |-> self, res |-> "AlreadyOpen"]
      [] self = "Locked" -> [self |-> "Open", res |-> Ok]
      [] self = "ClosedAndUnlocked" -> [self |-> "Open", res |-> Ok]

\* open() with the error kinds mixed up
LockableState_open_swapped(self) ==
    CASE self = "Open" -> [self |-> self, res |-> "Locked"]
      [] self = "Locked" -> [self |-> self, res |-> "AlreadyOpen"]
      [] self = "ClosedAndUnlocked" -> [self |-> "Open", res |-> Ok]

LockableState_open(self) ==
    CASE self = "Open" -> [self |-> self, res |-> "AlreadyOpen"]
      [] self = "Locked" -> [self |-> self, res |-> "Locked"]
      [] self = "ClosedAndUnlocked" -> [self |-> "Open", res |-> Ok]

\* close_and_lock with the close() failure propagated (`self.close()?`)
LockableState_close_and_lock_try(self) ==
    LET c == LockableState_close(self) IN
    IF c.res # Ok THEN c ELSE LockableState_lock(c.self)

\* let _ = self.close(); self.lock()
LockableState_close_and_lock(self) ==
    LET c == LockableState_close(self) IN
    LockableState_lock(c.self)

\* house/windows.rs: #[derive(Default)] struct Window { state }
Window_default == LockableState_default

----------------------------------------------------------------------------
(* house.rs, mod doors: the fused Door {state: LockableState} *)

Door_default == "ClosedAndUnlocked"

Door_is_open(self) == self = "Open"

Door_is_closed(self) == ~Door_is_open(self)

Door_is_locked(self) == self = "Locked"

Door_close(self) ==
    IF self = "Open"
    THEN [self |-> "ClosedAndUnlocked", res |-> Ok]
    ELSE [self |-> self, res |-> "AlreadyClosed"]

Door_lock(self) ==
    CASE self = "Open" -> [self |-> self, res |-> "Open"]
      [] self = "Locked" -> [self |-> self, res |-> "AlreadyLocked"]
      [] self = "ClosedAndUnlocked" -> [self |-> "Locked", res |-> Ok]

\* open() that opens a locked door
Door_open_forced(self) ==
    CASE self = "Open" -> [self |-> self, res |-> "AlreadyOpen"]
      [] self = "Locked" -> [self |-> "Open", res |-> Ok]
      [] self = "ClosedAndUnlocked" -> [self |-> "Open", res |-> Ok]

Door_open(self) ==
    CASE self = "Open" -> [self |-> self, res |-> "AlreadyOpen"]
      [] self = "Locked" -> [self |-> self, res |-> "Locked"]
      [] self = "ClosedAndUnlocked" -> [self |-> "Open", res |-> Ok]

\* self.close()?; self.lock()
Door_close_and_lock(self) ==
    LET c == Door_close(self) IN
    IF c.res # Ok THEN c ELSE Door_lock(c.self)

----------------------------------------------------------------------------
(* house/doors.rs: the composite Door {open_state, lock_state} *)

CompositeDoor(o, l) == [open_state |-> o, lock_state |-> l]

CompositeDoor_can_open(self) == OpenableState_can_open(self.open_state)

CompositeDoor_can_close(self) == OpenableState_can_close(self.open_state)

CompositeDoor_is_open(self) == OpenableState_is_open(self.open_state)

CompositeDoor_is_locked(self) == BinaryLock_is_locked(self.lock_state)

CompositeDoor_is_unlocked(self) == BinaryLock_is_unlocked(self.lock_state)

CompositeDoor_can_lock(self) == BinaryLock_can_lock(self.lock_state)

CompositeDoor_can_unlock(self) == BinaryLock_can_unlock(self.lock_state)

\* unlock() that reports success on a door that is already unlocked
CompositeDoor_unlock_tolerant(self) ==
    LET u == BinaryLock_unlock(self.lock_state) IN
    [self |-> [self EXCEPT !.lock_state = u.self], res |-> Ok]

CompositeDoor_unlock(self) ==
    LET u == BinaryLock_unlock(self.lock_state) IN
    [self |-> [self EXCEPT !.lock_state = u.self], res |-> u.res]

\* close() that also clears the lock
CompositeDoor_close_unlocks(self) ==
    LET c == OpenableState_close(self.open_state) IN
    [self |-> [self EXCEPT !.open_state = c.self, !.lock_state = "Unlocked"],
     res |-> c.res]

CompositeDoor_close(self) ==
    LET c == OpenableState_close(self.open_state) IN
    [self |-> [self EXCEPT !.open_state = c.self], res |-> c.res]

\* open() that unlocks but never reaches open_state.open()
CompositeDoor_open_unlock_only(self) ==
    LET u == CompositeDoor_unlock(self) IN
    IF u.res = Ok
    THEN [self |-> u.self, res |-> Ok]
    ELSE [self |-> u.self, res |-> "CannotOpen"]

\* match self.unlock() { Ok(()) => self.open_state.open(),
\*                       Err(_) => Err(OpenableError::CannotOpen) }
CompositeDoor_open(self) ==
    LET u == CompositeDoor_unlock(self) IN
    IF u.res = Ok
    THEN LET o == OpenableState_open(u.self.open_state) IN
         [self |-> [u.self EXCEPT !.open_state = o.self], res |-> o.res]
    ELSE [self |-> u.self, res |-> "CannotOpen"]

\* lock() without the forced close
CompositeDoor_lock_no_close(self) ==
    LET l == BinaryLock_lock(self.lock_state) IN
    [self |-> [self EXCEPT !.lock_state = l.self], res |-> l.res]

\* lock() that returns the result of the close step when it fails
CompositeDoor_lock_close_result(self) ==
    LET c == OpenableState_close(self.open_state) IN
    IF c.res # Ok
    THEN [self |-> self, res |-> c.res]
    ELSE LET l == BinaryLock_lock(self.lock_state) IN
         [self |-> [self EXCEPT !.open_state = c.self, !.lock_state = l.self],
          res |-> l.res]

\* lock() that locks first and then returns the result of close()
CompositeDoor_lock_then_close(self) ==
    LET l == BinaryLock_lock(self.lock_state) IN
    IF l.res # Ok
    THEN [self |-> self, res |-> l.res]
    ELSE LET c == OpenableState_close(self.open_state) IN
         [self |-> [self EXCEPT !.open_state = c.self, !.lock_state = l.self],
          res |-> c.res]

\* let _ = self.open_state.close(); self.lock_state.lock()
CompositeDoor_lock(self) ==
    LET c == OpenableState_close(self.open_state)
        l == BinaryLock_lock(self.lock_state)
    IN  [self |-> [self EXCEPT !.open_state = c.self, !.lock_state = l.self],
         res |-> l.res]

----------------------------------------------------------------------------
(* State machine *)

NoCall == [op |-> "none", pre |-> "none", res |-> "none"]

Door == CompositeDoor(open_state, lock_state)

DoorStates ==
    {CompositeDoor(o, l) : o \in OpenableStates, l \in BinaryLockStates}

\* Door values in which the door is not both open and locked
ConsistentDoorStates ==
    {d \in DoorStates : ~(CompositeDoor_is_open(d) /\ CompositeDoor_is_locked(d))}

\* the primitive machines as constructed by default, no call made yet
InitPrimitives ==
    /\ openable = OpenableState_default
    /\ occupation_state = Chair_new
    /\ binary_lock = BinaryLock_default
    /\ openable_call = NoCall
    /\ openable_prev = NoCall
    /\ occupation_call = NoCall
    /\ occupation_prev = NoCall
    /\ binary_lock_call = NoCall
    /\ binary_lock_prev = NoCall

InitCalls ==
    /\ door_call = NoCall
    /\ call = NoCall
    /\ prev_call = NoCall
    /\ state_call = NoCall
    /\ InitPrimitives

Init ==
    /\ \E d \in ConsistentDoorStates :
          /\ open_state = d.open_state
          /\ lock_state = d.lock_state
    /\ lockable \in LockableStates
    /\ state \in LockableStates
    /\ InitCalls

\* every value of the Door struct, the inconsistent one included
InitAny ==
    /\ open_state \in OpenableStates
    /\ lock_state \in BinaryLockStates
    /\ lockable \in LockableStates
    /\ state \in LockableStates
    /\ InitCalls

\* every fixture default-constructed; the composite Door at rest
InitDefault ==
    /\ open_state = OpenableState_default
    /\ lock_state = BinaryLock_default
    /\ lockable = LockableState_default
    /\ state = Door_default
    /\ InitCalls

DoorCall(op, r) ==
    /\ open_state' = r.self.open_state
    /\ lock_state' = r.self.lock_state
    /\ door_call' = [op |-> op, pre |-> Door, res |-> r.res]
    /\ UNCHANGED <<lockableVars, stateVars, openableVars, occupiableVars,
                   binaryLockVars>>

DoorOpen == DoorCall("open", CompositeDoor_open(Door))

DoorClose == DoorCall("close", CompositeDoor_close(Door))

DoorLock == DoorCall("lock", CompositeDoor_lock(Door))

DoorUnlock == DoorCall("unlock", CompositeDoor_unlock(Door))

LockableCall(op, r) ==
    /\ lockable' = r.self
    /\ call' = [op |-> op, pre |-> lockable, res |-> r.res]
    /\ prev_call' = call
    /\ UNCHANGED <<doorVars, stateVars, openableVars, occupiableVars,
                   binaryLockVars>>

LockableOpen == LockableCall("open", LockableState_open(lockable))

LockableClose == LockableCall("close", LockableState_close(lockable))

LockableLock == LockableCall("lock", LockableState_lock(lockable))

LockableCloseAndLock ==
    LockableCall("close_and_lock", LockableState_close_and_lock(lockable))

StateCall(op, r) ==
    /\ state' = r.self
    /\ state_call' = [op |-> op, pre |-> state, res |-> r.res]
    /\ UNCHANGED <<doorVars, lockableVars, openableVars, occupiableVars,
                   binaryLockVars>>

FusedDoorOpen == StateCall("open", Door_open(state))

FusedDoorClose == StateCall("close", Door_close(state))

FusedDoorLock == StateCall("lock", Door_lock(state))

FusedDoorCloseAndLock == StateCall("close_and_lock", Door_close_and_lock(state))

OpenableCall(op, r) ==
    /\ openable' = r.self
    /\ openable_call' = [op |-> op, pre |-> openable, res |-> r.res]
    /\ openable_prev' = openable_call
    /\ UNCHANGED <<doorVars, lockableVars, stateVars, occupiableVars,
                   binaryLockVars>>

OpenableOpen == OpenableCall("open", OpenableState_open(openable))

OpenableClose == OpenableCall("close", OpenableState_close(openable))

OccupiableCall(op, r) ==
    /\ occupation_state' = r.self
    /\ occupation_call' = [op |-> op, pre |-> occupation_state, res |-> r.res]
    /\ occupation_prev' = occupation_call
    /\ UNCHANGED <<doorVars, lockableVars, stateVars, openableVars,
                   binaryLockVars>>

ChairOccupy == OccupiableCall("occupy", OccupiableState_occupy(occupation_state))

ChairVacate == OccupiableCall("vacate", OccupiableState_vacate(occupation_state))

BinaryLockCall(op, r) ==
    /\ binary_lock' = r.self
    /\ binary_lock_call' = [op |-> op, pre |-> binary_lock, res |-> r.res]
    /\ binary_lock_prev' = binary_lock_call
    /\ UNCHANGED <<doorVars, lockableVars, stateVars, openableVars,
                   occupiableVars>>

BinaryLockLock == BinaryLockCall("lock", BinaryLock_lock(binary_lock))

BinaryLockUnlock == BinaryLockCall("unlock", BinaryLock_unlock(binary_lock))

Next ==
    \/ DoorOpen
    \/ DoorClose
    \/ DoorLock
    \/ DoorUnlock
    \/ LockableOpen
    \/ LockableClose
    \/ LockableLock
    \/ LockableCloseAndLock
    \/ FusedDoorOpen
    \/ FusedDoorClose
    \/ FusedDoorLock
    \/ FusedDoorCloseAndLock

Spec == Init /\ [][Next]_vars

SpecAny == InitAny /\ [][Next]_vars

\* the default-constructed fixtures: the primitive machines and the two
\* fused implementations
NextDefault ==
    \/ OpenableOpen
    \/ OpenableClose
    \/ ChairOccupy
    \/ ChairVacate
    \/ BinaryLockLock
    \/ BinaryLockUnlock
    \/ LockableOpen
    \/ LockableClose
    \/ LockableLock
    \/ LockableCloseAndLock
    \/ FusedDoorOpen
    \/ FusedDoorClose
    \/ FusedDoorLock
    \/ FusedDoorCloseAndLock

SpecDefault == InitDefault /\ [][NextDefault]_vars

\* The two fused implementations constructed from the same variant and
\* given the same calls, one after the other.
InitBoth ==
    /\ open_state = OpenableState_default
    /\ lock_state = BinaryLock_default
    /\ \E v \in LockableStates :
          /\ lockable = v
          /\ state = v
    /\ InitCalls

BothCall(op, r, d) ==
    /\ lockable' = r.self
    /\ call' = [op |-> op, pre |-> lockable, res |-> r.res]
    /\ prev_call' = call
    /\ state' = d.self
    /\ state_call' = [op |-> op, pre |-> state, res |-> d.res]
    /\ UNCHANGED <<doorVars, openableVars, occupiableVars, binaryLockVars>>

BothOpen == BothCall("open", LockableState_open(lockable), Door_open(state))

BothClose == BothCall("close", LockableState_close(lockable), Door_close(state))

BothLock == BothCall("lock", LockableState_lock(lockable), Door_lock(state))

BothCloseAndLock ==
    BothCall("close_and_lock", LockableState_close_and_lock(lockable),
             Door_close_and_lock(state))

\* the composite Door of the same house is called independently
NextBoth ==
    \/ BothOpen
    \/ BothClose
    \/ BothLock
    \/ BothCloseAndLock
    \/ DoorOpen
    \/ DoorClose
    \/ DoorLock
    \/ DoorUnlock

SpecBoth == InitBoth /\ [][NextBoth]_vars

----------------------------------------------------------------------------
(* Properties *)

PartialMutationFree(c, post) ==
    /\ c.res # Ok => post = c.pre
    /\ c.res = Ok => post # c.pre

\* C1: starting from a Door that is not both open and locked, after any
\* sequence of open/close/lock/unlock calls the composite Door never reports
\* is_open() and is_locked() at the same time.
C1_NeverOpenAndLocked ==
    ~(CompositeDoor_is_open(Door) /\ CompositeDoor_is_locked(Door))

\* lock() has just been called on an open door
C1_Witness ==
    /\ door_call.op = "lock"
    /\ door_call.pre.open_state = "Open"
    /\ lock_state = "Locked"

\* C2: open() on a Locked and Closed composite Door returns success and
\* leaves the Door Unlocked and Open.
C2_OpenLockedDoor ==
    (door_call.op = "open" /\ door_call.pre = CompositeDoor("Closed", "Locked"))
        => /\ door_call.res = Ok
           /\ open_state = "Open"
           /\ lock_state = "Unlocked"

C2_Witness ==
    /\ door_call.op = "open"
    /\ door_call.pre = CompositeDoor("Closed", "Locked")
    /\ open_state = "Open"

\* C3: open() on an Unlocked and Closed composite Door returns success and
\* leaves the Door Open and Unlocked (the AlreadyUnlocked failure of the
\* internal unlock() is tolerated).
C3_OpenUnlockedDoor ==
    (door_call.op = "open" /\ door_call.pre = CompositeDoor("Closed", "Unlocked"))
        => /\ door_call.res = Ok
           /\ open_state = "Open"
           /\ lock_state = "Unlocked"

\* C4: lock() on a composite Door whose lock state is Unlocked (Open or
\* Closed) returns success and leaves the Door Closed and Locked.
C4_LockUnlockedDoor ==
    (door_call.op = "lock" /\ door_call.pre.lock_state = "Unlocked")
        => /\ door_call.res = Ok
           /\ open_state = "Closed"
           /\ lock_state = "Locked"

C4_Witness ==
    /\ door_call.op = "lock"
    /\ door_call.pre = CompositeDoor("Open", "Unlocked")
    /\ door_call.res = Ok
    /\ open_state = "Closed"

\* C5: whenever the composite Door's open() returns CannotOpen the Door is
\* still Locked after the call; it never returns CannotOpen on a Door that
\* is Unlocked before or after the call.
C5_CannotOpenOnlyWhenLocked ==
    (door_call.op = "open" /\ door_call.res = "CannotOpen")
        => /\ lock_state = "Locked"
           /\ door_call.pre.lock_state = "Locked"

C7_CloseAndLock ==
    call.op = "close_and_lock"
        => /\ call.pre \in {"Open", "ClosedAndUnlocked"}
                => (call.res = Ok /\ lockable = "Locked")
           /\ call.pre = "Locked"
                => (call.res = "AlreadyLocked" /\ lockable = "Locked")
           /\ call.res # "AlreadyClosed"

C7_Witness ==
    /\ call.op = "close_and_lock"
    /\ call.pre = "ClosedAndUnlocked"
    /\ lockable = "Locked"

\* C8: the fused Door of house.rs: close_and_lock() returns success from
\* Open and from ClosedAndUnlocked and fails with AlreadyLocked from Locked.
C8_FusedDoorCloseAndLock ==
    state_call.op = "close_and_lock"
        => /\ state_call.pre \in {"Open", "ClosedAndUnlocked"}
                => state_call.res = Ok
           /\ state_call.pre = "Locked"
                => state_call.res = "AlreadyLocked"

\* C9: LockableState::close_and_lock() called twice in a row from
\* ClosedAndUnlocked or Open: the first call succeeds, the second fails with
\* AlreadyLocked, and the state is Locked after each call.
C9_CloseAndLockTwice ==
    (/\ prev_call.op = "close_and_lock"
     /\ prev_call.pre \in {"ClosedAndUnlocked", "Open"}
     /\ call.op = "close_and_lock")
        => /\ prev_call.res = Ok
           /\ call.pre = "Locked"
           /\ call.res = "AlreadyLocked"
           /\ lockable = "Locked"

C9_Witness ==
    /\ prev_call.op = "close_and_lock"
    /\ prev_call.pre = "Open"
    /\ call.op = "close_and_lock"
    /\ lockable = "Locked"

DirectEdges(c, post) ==
    /\ ~(c.pre = "Open" /\ post = "Locked")
    /\ ~(c.pre = "Locked" /\ post = "Open")
    /\ (post = "Locked" /\ post # c.pre) => c.pre = "ClosedAndUnlocked"
    /\ (post = "Open" /\ post # c.pre) => c.pre = "ClosedAndUnlocked"

\* C10 (as stated): no single call of open, close, lock or close_and_lock
\* takes the fused state from Open to Locked or from Locked to Open; every
\* state-changing call that ends in Locked, or in Open, started from
\* ClosedAndUnlocked.
C10_NoDirectEdgeAnyOp ==
    call.op # "none" => DirectEdges(call, lockable)

\* C10 (amended): that holds of open, close and lock; close_and_lock takes
\* Open to Locked in one call, never Locked to Open, and a state-changing
\* close_and_lock ends in Locked.  Both fused implementations.
C10_NoDirectEdge ==
    /\ call.op \in {"open", "close", "lock"} => DirectEdges(call, lockable)
    /\ state_call.op \in {"open", "close", "lock"} => DirectEdges(state_call, state)
    /\ call.op = "close_and_lock"
          => /\ lockable # "Open"
             /\ lockable # call.pre => lockable = "Locked"
    /\ state_call.op = "close_and_lock"
          => /\ state # "Open"
             /\ state # state_call.pre => state = "Locked"

\* close_and_lock() has just taken the fused state from Open to Locked
C10_Witness ==
    /\ call.op = "close_and_lock"
    /\ call.pre = "Open"
    /\ call.res = Ok
    /\ lockable = "Locked"

\* C11: in every reachable state of the fused machine is_open() and
\* is_locked() are not both true, is_closed() is the negation of is_open()
\* (Locked reports closed) and can_close() equals is_open().
C11_FusedPredicates ==
    /\ ~(LockableState_is_open(lockable) /\ LockableState_is_locked(lockable))
    /\ LockableState_is_closed(lockable) = (lockable # "Open")
    /\ lockable = "Locked" => LockableState_is_closed(lockable)
    /\ LockableState_can_close(lockable) = LockableState_is_open(lockable)
    /\ LockableState_can_close(lockable) = (lockable = "Open")

\* the machine has just been locked
C11_Witness ==
    /\ call.op \in {"lock", "close_and_lock"}
    /\ call.res = Ok
    /\ lockable = "Locked"
    /\ LockableState_is_closed(lockable)

FusedOpenContract(c, post) ==
    c.op = "open"
        => /\ c.pre = "ClosedAndUnlocked" => (c.res = Ok /\ post = "Open")
           /\ c.pre = "Locked" => (c.res = "Locked" /\ post = "Locked")
           /\ c.pre = "Open" => (c.res = "AlreadyOpen" /\ post = "Open")

\* C12: fused open(): from ClosedAndUnlocked it succeeds and the state
\* becomes Open; from Locked it fails with Locked and stays Locked; from
\* Open it fails with AlreadyOpen and stays Open.
C12_FusedOpen ==
    /\ FusedOpenContract(call, lockable)
    /\ FusedOpenContract(state_call, state)

C12_Witness ==
    /\ call.op = "open"
    /\ call.pre = "Locked"
    /\ call.res = "Locked"
    /\ state_call.op = "open"
    /\ state_call.pre = "ClosedAndUnlocked"
    /\ state = "Open"

FusedLockContract(c, post) ==
    c.op = "lock"
        => /\ c.pre = "ClosedAndUnlocked" => (c.res = Ok /\ post = "Locked")
           /\ c.pre = "Open" => (c.res = "Open" /\ post = "Open")
           /\ c.pre = "Locked" => (c.res = "AlreadyLocked" /\ post = "Locked")

\* C13: fused lock(): from ClosedAndUnlocked it succeeds and the state
\* becomes Locked; from Open it fails with Open and stays Open; from Locked
\* it fails with AlreadyLocked and stays Locked.
C13_FusedLock ==
    /\ FusedLockContract(call, lockable)
    /\ FusedLockContract(state_call, state)

C13_Witness ==
    /\ call.op = "lock"
    /\ call.pre = "Open"
    /\ call.res = "Open"
    /\ lockable = "Open"
    /\ state_call.op = "lock"
    /\ state_call.pre = "ClosedAndUnlocked"
    /\ state = "Locked"

FusedCloseContract(c, post) ==
    c.op = "close"
        => /\ c.pre = "Open" => (c.res = Ok /\ post = "ClosedAndUnlocked")
           /\ c.pre \in {"ClosedAndUnlocked", "Locked"}
                => (c.res = "AlreadyClosed" /\ post = c.pre)

\* C14: fused close(): from Open it succeeds and the state becomes
\* ClosedAndUnlocked; from ClosedAndUnlocked and from Locked it fails with
\* AlreadyClosed and the state is unchanged.
C14_FusedClose ==
    /\ FusedCloseContract(call, lockable)
    /\ FusedCloseContract(state_call, state)

C14_Witness ==
    /\ call.op = "close"
    /\ call.pre = "Locked"
    /\ call.res = "AlreadyClosed"
    /\ lockable = "Locked"
    /\ state_call.op = "close"
    /\ state_call.pre = "Open"
    /\ state = "ClosedAndUnlocked"

\* C15: OpenableState: open() from Closed succeeds and yields Open, from
\* Open fails with AlreadyOpen and stays Open; close() from Open succeeds
\* and yields Closed, from Closed fails with AlreadyClosed and stays Closed;
\* CannotOpen is never returned and there is no other transition.
C15_Openable ==
    /\ openable \in OpenableStates
    /\ openable_call.op = "open"
          => /\ openable_call.pre = "Closed"
                  => (openable_call.res = Ok /\ openable = "Open")
             /\ openable_call.pre = "Open"
                  => (openable_call.res = "AlreadyOpen" /\ openable = "Open")
    /\ openable_call.op = "close"
          => /\ openable_call.pre = "Open"
                  => (openable_call.res = Ok /\ openable = "Closed")
             /\ openable_call.pre = "Closed"
                  => (openable_call.res = "AlreadyClosed" /\ openable = "Closed")
    /\ openable_call.res # "CannotOpen"
    /\ openable_call # NoCall
          => <<openable_call.op, openable_call.pre, openable_call.res, openable>>
                \in {<<"open", "Closed", Ok, "Open">>,
                     <<"open", "Open", "AlreadyOpen", "Open">>,
                     <<"close", "Open", Ok, "Closed">>,
                     <<"close", "Closed", "AlreadyClosed", "Closed">>}

C15_Witness ==
    /\ openable_call.op = "open"
    /\ openable_call.pre = "Open"
    /\ openable_call.res = "AlreadyOpen"
    /\ openable_prev.op = "open"
    /\ openable_prev.res = Ok
    /\ openable = "Open"

C18_Occupiable ==
    /\ occupation_call.op = "occupy"
          => /\ occupation_call.pre = "Vacant"
                  => (occupation_call.res = Ok /\ occupation_state = "Occupied")
             /\ occupation_call.pre = "Occupied"
                  => (/\ occupation_call.res = "AlreadyOccupied"
                      /\ occupation_state = "Occupied")
    /\ occupation_call.op = "vacate"
          => /\ occupation_call.pre = "Occupied"
                  => (occupation_call.res = Ok /\ occupation_state = "Vacant")
             /\ occupation_call.pre = "Vacant"
                  => (/\ occupation_call.res = "AlreadyVacant"
                      /\ occupation_state = "Vacant")
    /\ (/\ occupation_prev.op = "vacate"
        /\ occupation_prev.pre = OccupiableState_default
        /\ occupation_call.op = "occupy")
          => /\ occupation_prev.res = "AlreadyVacant"
             /\ occupation_call.pre = "Vacant"
             /\ occupation_call.res = Ok
             /\ occupation_state = "Occupied"

C18_Witness ==
    /\ occupation_prev.op = "vacate"
    /\ occupation_prev.pre = "Vacant"
    /\ occupation_prev.res = "AlreadyVacant"
    /\ occupation_call.op = "occupy"
    /\ occupation_state = "Occupied"

\* C19: composite Door: close() leaves the lock state unchanged whether it
\* succeeds or fails; unlock() leaves the open state unchanged whether it
\* succeeds or fails.
C19_DoorFrame ==
    /\ door_call.op = "close" => lock_state = door_call.pre.lock_state
    /\ door_call.op = "unlock" => open_state = door_call.pre.open_state

\* close() has failed on a locked door
C19_Witness ==
    /\ door_call.op = "close"
    /\ door_call.pre = CompositeDoor("Closed", "Locked")
    /\ door_call.res = "AlreadyClosed"
    /\ lock_state = "Locked"

\* C20: default construction yields the rest state: OpenableState is
\* Closed, OccupiableState (Chair::default(), Chair::new()) is Vacant, the
\* fused LockableState (Window::default(), the house.rs Door::default()) is
\* ClosedAndUnlocked; there is_closed()/is_vacant() is true and
\* is_open()/is_occupied()/is_locked() is false.
C20_Defaults ==
    /\ (openable_call = NoCall)
          => /\ openable = "Closed"
             /\ OpenableState_is_closed(openable)
             /\ ~OpenableState_is_open(openable)
    /\ (occupation_call = NoCall)
          => /\ occupation_state = "Vacant"
             /\ OccupiableState_is_vacant(occupation_state)
             /\ ~OccupiableState_is_occupied(occupation_state)
    /\ (call = NoCall)
          => /\ lockable = "ClosedAndUnlocked"
             /\ LockableState_is_closed(lockable)
             /\ ~LockableState_is_open(lockable)
             /\ ~LockableState_is_locked(lockable)
    /\ (state_call = NoCall)
          => /\ state = "ClosedAndUnlocked"
             /\ Door_is_closed(state)
             /\ ~Door_is_open(state)
             /\ ~Door_is_locked(state)
    /\ Chair_default = "Vacant"
    /\ Chair_new = "Vacant"
    /\ Window_default = "ClosedAndUnlocked"

\* the chair is still as constructed while the other fixtures have moved on
C20_Witness ==
    /\ occupation_call = NoCall
    /\ occupation_state = "Vacant"
    /\ openable = "Open"
    /\ lockable = "Locked"
    /\ state = "Open"

\* C21: in the fused model Locked is absorbing: from Locked every call of
\* open, close, lock or close_and_lock returns an error and the state stays
\* Locked, so the fixture never reports is_open() again.
C21_LockedAbsorbing ==
    [][/\ lockable = "Locked"
          => /\ lockable' = "Locked"
             /\ ~LockableState_is_open(lockable')
             /\ call'.pre = "Locked" => call'.res # Ok
       /\ state = "Locked"
          => /\ state' = "Locked"
             /\ ~Door_is_open(state')
             /\ state_call'.pre = "Locked" => state_call'.res # Ok]_vars

\* both fused fixtures have been called while Locked
C21_Witness ==
    /\ prev_call.pre = "Locked"
    /\ call.pre = "Locked"
    /\ call.op = "open"
    /\ call.res = "Locked"
    /\ lockable = "Locked"
    /\ state_call.op = "close_and_lock"
    /\ state_call.pre = "Locked"
    /\ state = "Locked"

\* C22: in every reachable state of the composite Door, can_open() is true
\* exactly when open() would succeed there, can_close() exactly when close()
\* would, can_lock() exactly when lock() would and can_unlock() exactly when
\* unlock() would.
C22_DoorPredicatesAgree ==
    /\ CompositeDoor_can_open(Door) = (CompositeDoor_open(Door).res = Ok)
    /\ CompositeDoor_can_close(Door) = (CompositeDoor_close(Door).res = Ok)
    /\ CompositeDoor_can_lock(Door) = (CompositeDoor_lock(Door).res = Ok)
    /\ CompositeDoor_can_unlock(Door) = (CompositeDoor_unlock(Door).res = Ok)

\* C23: for OpenableState, OccupiableState and the fused LockableState, in
\* every state can_open() is true exactly when open() would succeed,
\* can_close() exactly when close() would, can_occupy() exactly when
\* occupy() would and can_vacate() exactly when vacate() would; exactly one
\* of is_open()/is_closed() and of is_occupied()/is_vacant() is true.
C23_PredicatesAgree ==
    /\ OpenableState_can_open(openable) = (OpenableState_open(openable).res = Ok)
    /\ OpenableState_can_close(openable) = (OpenableState_close(openable).res = Ok)
    /\ OpenableState_is_open(openable) # OpenableState_is_closed(openable)
    /\ OccupiableState_can_occupy(occupation_state)
          = (OccupiableState_occupy(occupation_state).res = Ok)
    /\ OccupiableState_can_vacate(occupation_state)
          = (OccupiableState_vacate(occupation_state).res = Ok)
    /\ OccupiableState_is_occupied(occupation_state)
          # OccupiableState_is_vacant(occupation_state)
    /\ LockableState_can_open(lockable) = (LockableState_open(lockable).res = Ok)
    /\ LockableState_can_close(lockable) = (LockableState_close(lockable).res = Ok)

\* every machine has left its rest state through a call
C23_Witness ==
    /\ openable_call.op = "open"
    /\ openable = "Open"
    /\ occupation_call.op = "occupy"
    /\ occupation_state = "Occupied"
    /\ call.op = "lock"
    /\ lockable = "Locked"

\* C24: from the same initial variant and under the same sequence of open,
\* close, lock and close_and_lock calls, the house.rs Door and LockableState
\* return the same result at every call and are in the same variant after
\* every call.
C24_FusedEquivalent ==
    /\ state = lockable
    /\ state_call.op = call.op
    /\ state_call.res = call.res

====
